---- MODULE Spec2Model ----
(***************************************************************************)
(* The 2048 game of src/2048.py: the grid (class Grid), its four moves,    *)
(* the spawn of a new square and the main loop of class Game.              *)
(*                                                                         *)
(* A square's value is modelled by a natural number; None (an empty        *)
(* square) is modelled by 0, which no tile ever holds.  Python's 0-based   *)
(* list indices i are the 1-based indices i+1 here, and "no index yet"     *)
(* (None) is NoSpot.                                                       *)
(***************************************************************************)
EXTENDS Naturals, Sequences, FiniteSets

VARIABLES
    squares,    \* Grid.squares: squares[x][y] is the value of a square
    pc,         \* "loop": Game._main_loop waits for a key; "done": it has left the loop;
                \* "crashed": the constructor raised out of Game.__init__;
                \* "shift", "shifted": a single call of _shift, entered and returned
    action,     \* the last key's action handled by the loop ("none" before the first)
    outcome,    \* how the last action ended: "continuing", "won" (GameFinishedException),
                \* "lost" (GameOverException), "none" before the first action
    before,     \* Grid.squares when the last action started
    shifted,    \* Grid.squares when _move had shifted every line (before _new_square)
    made_move,  \* _move's local made_move at the end of its loop
    finished,   \* _move's local finished at the end of its loop
    merges,     \* the number of lines whose _shift ended with merged = True
    moves,      \* the number of actions the loop has handled
    shift_input, \* the values of the squares handed to a single call of _shift, in
                \* travel order (<<>> when a whole game is run)
    shift_locals \* that call's locals: before its loop, then as it returns

vars == <<squares, pc, action, outcome, before, shifted, made_move, finished, merges, moves,
         shift_input, shift_locals>>

\* ---------------------------------------------------------------- constants

GOAL == 2048

GRID_WIDTH == 4

GRID_HEIGHT == 4

\* The value a new square gets.
NEW_VALUE == 2

\* None, as a square's value.
None == 0

\* None, as first_empty_spot or last_filled_spot.
NoSpot == 0

\* The number of actions the main loop handles in a checked run.
MaxMoves == 2

Directions == {"left", "right", "top", "bottom"}

\* ---------------------------------------------------------------- the grid

\* Grid._init_squares: width lists of height empty squares.
InitSquares == [x \in 1..GRID_WIDTH |-> [y \in 1..GRID_HEIGHT |-> None]]

Positions == (1..GRID_WIDTH) \X (1..GRID_HEIGHT)

\* A mutant of EmptySquares: every square, empty or not.
EmptySquaresAll(g) == Positions

\* Grid._get_empty_squares: the squares whose value is None.
EmptySquares(g) == {p \in Positions : g[p[1]][p[2]] = None}

\* random_square.value = 2
SetValue(g, p, v) == [g EXCEPT ![p[1]][p[2]] = v]

\* A mutant of NewSquare: always the first empty square, never a random one.
NewSquareFirst(g) ==
    IF EmptySquares(g) = {}
    THEN {[raised |-> TRUE, squares |-> g]}
    ELSE LET first == CHOOSE p \in EmptySquares(g) :
                         \A q \in EmptySquares(g) :
                            p[1] < q[1] \/ (p[1] = q[1] /\ p[2] <= q[2])
         IN  {[raised |-> FALSE, squares |-> SetValue(g, first, NEW_VALUE)]}

\* Grid._new_square: every result random.choice allows; raised stands for
\* GameOverException('No empty squares left.').
NewSquare(g) ==
    IF EmptySquares(g) = {}
    THEN {[raised |-> TRUE, squares |-> g]}
    ELSE {[raised |-> FALSE, squares |-> SetValue(g, p, NEW_VALUE)] : p \in EmptySquares(g)}

\* Grid.__init__: _init_squares, then _new_square twice (the second is not
\* reached when the first raises).
NewGrid ==
    UNION { IF a.raised THEN {a} ELSE NewSquare(a.squares) : a \in NewSquare(InitSquares) }

\* ---------------------------------------------------------------- _shift

\* The locals of _shift before its loop; line is the list of values of the
\* squares handed to it, in travel order.
ShiftStart(line) ==
    [line |-> line, first_empty_spot |-> NoSpot, last_filled_spot |-> NoSpot,
     merged |-> FALSE, finished |-> FALSE, made_move |-> FALSE]

\* A mutant of MergedValue: the value is assigned, not added (= for +=).
MergedValueAssigned(a, b) == b

\* last_filled_spot.value += spot.value
MergedValue(a, b) == a + b

\* A mutant of CanMerge: the values are not compared.
CanMergeAny(s, i) == s.last_filled_spot # NoSpot

\* last_filled_spot and last_filled_spot.value == spot.value
CanMerge(s, i) ==
    /\ s.last_filled_spot # NoSpot
    /\ s.line[s.last_filled_spot] = s.line[i]

\* A square without a value: the first one seen is recorded as first_empty_spot.
SeeEmpty(s, i) ==
    IF s.first_empty_spot = NoSpot THEN [s EXCEPT !.first_empty_spot = i] ELSE s

\* A mutant of Merge: the merged square keeps its value (spot.value = None is missing).
MergeKeepsSpot(s, i) ==
    LET v == MergedValue(s.line[s.last_filled_spot], s.line[i])
    IN  [s EXCEPT !.line = [@ EXCEPT ![s.last_filled_spot] = v],
                  !.finished = (v = GOAL) \/ @,
                  !.merged = TRUE,
                  !.made_move = TRUE,
                  !.first_empty_spot = IF @ = NoSpot THEN i ELSE @]

\* The merge of the square at i into last_filled_spot.
Merge(s, i) ==
    LET v == MergedValue(s.line[s.last_filled_spot], s.line[i])
    IN  [s EXCEPT !.line = [@ EXCEPT ![s.last_filled_spot] = v, ![i] = None],
                  !.finished = (v = GOAL) \/ @,
                  !.merged = TRUE,
                  !.made_move = TRUE,
                  !.first_empty_spot = IF @ = NoSpot THEN i ELSE @]

\* A mutant of MoveToEmpty: the moved square keeps its value (spot.value = None is missing).
MoveToEmptyCopies(s, i) ==
    [s EXCEPT !.line = [@ EXCEPT ![s.first_empty_spot] = s.line[i]],
              !.last_filled_spot = s.first_empty_spot,
              !.first_empty_spot = @ + 1,
              !.made_move = TRUE]

\* A mutant of MoveToEmpty: the square is emptied before its value is copied
\* (spot.value = None comes first), so the tile is lost.
MoveToEmptyLoses(s, i) ==
    [s EXCEPT !.line = [@ EXCEPT ![i] = None],
              !.last_filled_spot = s.first_empty_spot,
              !.first_empty_spot = @ + 1,
              !.made_move = TRUE]

\* The move of the square at i to first_empty_spot.
MoveToEmpty(s, i) ==
    [s EXCEPT !.line = [@ EXCEPT ![s.first_empty_spot] = s.line[i], ![i] = None],
              !.last_filled_spot = s.first_empty_spot,
              !.first_empty_spot = @ + 1,
              !.made_move = TRUE]

\* A mutant of Keep: a square that stays where it is counts as a move.
KeepMarksMove(s, i) == [s EXCEPT !.last_filled_spot = i, !.made_move = TRUE]

\* The square at i stays: it is the last spot available for merging.
Keep(s, i) == [s EXCEPT !.last_filled_spot = i]

\* A mutant of ShiftStep: a line merges as often as it can (merged is not tested).
ShiftStepMergesAgain(s, i) ==
    IF s.line[i] = None
    THEN SeeEmpty(s, i)
    ELSE IF CanMerge(s, i)
    THEN Merge(s, i)
    ELSE IF s.first_empty_spot # NoSpot
    THEN MoveToEmpty(s, i)
    ELSE Keep(s, i)

\* One iteration of _shift's loop, for the square at index i.
ShiftStep(s, i) ==
    IF s.line[i] = None
    THEN SeeEmpty(s, i)
    ELSE IF CanMerge(s, i)
    THEN IF s.merged THEN s ELSE Merge(s, i)
    ELSE IF s.first_empty_spot # NoSpot
    THEN MoveToEmpty(s, i)
    ELSE Keep(s, i)

RECURSIVE ShiftLoop(_, _)
\* The iterations of _shift's loop from index i on.
ShiftLoop(s, i) ==
    IF i > Len(s.line) THEN s ELSE ShiftLoop(ShiftStep(s, i), i + 1)

\* Grid._shift: the line's values afterwards, and the locals it returns.
Shift(line) == ShiftLoop(ShiftStart(line), 1)

\* ---------------------------------------------------------------- the moves

Reverse(seq) == [i \in 1..Len(seq) |-> seq[Len(seq) + 1 - i]]

\* A mutant of Rows: the columns are handed out as rows.
RowsAsColumns == [x \in 1..GRID_WIDTH |-> [y \in 1..GRID_HEIGHT |-> <<y, x>>]]

\* Grid.left hands _move self.squares: the rows.
Rows == [x \in 1..GRID_WIDTH |-> [y \in 1..GRID_HEIGHT |-> <<x, y>>]]

\* A mutant of Columns: the rows are handed out as columns.
ColumnsAsRows == [i \in 1..GRID_WIDTH |-> [x \in 1..GRID_WIDTH |-> <<i, x>>]]

\* Grid._get_columns: one column per row of squares, column i holding the
\* i-th square of every row.
Columns == [i \in 1..GRID_WIDTH |-> [x \in 1..GRID_WIDTH |-> <<x, i>>]]

\* The lines of squares (as their positions) each move hands to _move.
Lines(d) ==
    CASE d = "left"   -> Rows
      [] d = "right"  -> [i \in 1..Len(Rows) |-> Reverse(Rows[i])]
      [] d = "top"    -> Columns
      [] d = "bottom" -> [i \in 1..Len(Columns) |-> Reverse(Columns[i])]

\* The values of the squares of a line.
Values(g, ln) == [i \in 1..Len(ln) |-> g[ln[i][1]][ln[i][2]]]

\* _shift writes its squares' values: the grid with a line's squares set.
WriteLine(g, ln, vals) ==
    [x \in 1..GRID_WIDTH |-> [y \in 1..GRID_HEIGHT |->
        IF \E i \in 1..Len(ln) : ln[i] = <<x, y>>
        THEN vals[CHOOSE i \in 1..Len(ln) : ln[i] = <<x, y>>]
        ELSE g[x][y]]]

\* A mutant of Accumulate: finished = finished_, the last line's answer alone.
AccumulateLast(m, r, g) ==
    [squares |-> g,
     finished |-> r.finished,
     made_move |-> r.made_move \/ m.made_move,
     merges |-> m.merges + (IF r.merged THEN 1 ELSE 0)]

\* finished = finished_ or finished; made_move = made_move_ or made_move
Accumulate(m, r, g) ==
    [squares |-> g,
     finished |-> r.finished \/ m.finished,
     made_move |-> r.made_move \/ m.made_move,
     merges |-> m.merges + (IF r.merged THEN 1 ELSE 0)]

RECURSIVE MoveLoop(_, _, _)
\* The loop of _move over its lines, from line k on.
MoveLoop(m, lines, k) ==
    IF k > Len(lines)
    THEN m
    ELSE \* r is what _shift returns for line k and a the totals after it; each
         \* is bound to its value, so that it is computed once.
         CHOOSE n \in {MoveLoop(a, lines, k + 1) :
                        a \in {Accumulate(m, r, WriteLine(m.squares, lines[k], r.line)) :
                                  r \in {Shift(Values(m.squares, lines[k]))}}} : TRUE

\* Grid._move up to its if: every line shifted.
ShiftLines(g, d) ==
    MoveLoop([squares |-> g, finished |-> FALSE, made_move |-> FALSE, merges |-> 0],
             Lines(d), 1)

\* A mutant of AfterShift: _new_square is called whether or not a move was made.
AfterShiftAlwaysSpawns(m) ==
    IF m.finished
    THEN {[outcome |-> "won", squares |-> m.squares]}
    ELSE {[outcome |-> IF n.raised THEN "lost" ELSE "continuing", squares |-> n.squares] :
            n \in NewSquare(m.squares)}

\* The end of Grid._move: raise GameFinishedException, or _new_square (which
\* may raise GameOverException), or nothing.
AfterShift(m) ==
    IF m.finished
    THEN {[outcome |-> "won", squares |-> m.squares]}
    ELSE IF m.made_move
    THEN {[outcome |-> IF n.raised THEN "lost" ELSE "continuing", squares |-> n.squares] :
            n \in NewSquare(m.squares)}
    ELSE {[outcome |-> "continuing", squares |-> m.squares]}

\* View.COLORS: the values the renderer has a colour for.
ColorKeys == {None, 2, 4, 8, 16, 32, 64, 128, 256, 512, 1024, 2048}

\* ---------------------------------------------------------------- the game

\* Game.__init__: the grid is constructed and the main loop entered.
Init ==
    /\ \E n \in NewGrid :
          /\ squares = n.squares
          /\ pc = IF n.raised THEN "crashed" ELSE "loop"
    /\ action = "none"
    /\ outcome = "none"
    /\ before = squares
    /\ shifted = squares
    /\ made_move = FALSE
    /\ finished = FALSE
    /\ merges = 0
    /\ moves = 0
    /\ shift_input = <<>>
    /\ shift_locals = ShiftStart(shift_input)

\* A mutant of Move: the except clauses do not break, the loop goes on after
\* a move that won or lost.
MoveKeepsLooping(d) ==
    /\ pc = "loop"
    /\ moves < MaxMoves
    /\ \E m \in {ShiftLines(squares, d)} :
           /\ \E o \in AfterShift(m) :
                 /\ squares' = o.squares
                 /\ outcome' = o.outcome
                 /\ pc' = "loop"
           /\ shifted' = m.squares
           /\ made_move' = m.made_move
           /\ finished' = m.finished
           /\ merges' = m.merges
    /\ action' = d
    /\ before' = squares
    /\ moves' = moves + 1
    /\ UNCHANGED <<shift_input, shift_locals>>

\* One pass of Game._main_loop with a move's key: getattr(self._grid, action)()
\* and the two except clauses.
Move(d) ==
    /\ pc = "loop"
    /\ moves < MaxMoves
    /\ \E m \in {ShiftLines(squares, d)} :
           /\ \E o \in AfterShift(m) :
                 /\ squares' = o.squares
                 /\ outcome' = o.outcome
                 /\ pc' = IF o.outcome = "continuing" THEN "loop" ELSE "done"
           /\ shifted' = m.squares
           /\ made_move' = m.made_move
           /\ finished' = m.finished
           /\ merges' = m.merges
    /\ action' = d
    /\ before' = squares
    /\ moves' = moves + 1
    /\ UNCHANGED <<shift_input, shift_locals>>

Left == Move("left")

Right == Move("right")

Top == Move("top")

Bottom == Move("bottom")

\* One pass of Game._main_loop with the quit key.
Quit ==
    /\ pc = "loop"
    /\ pc' = "done"
    /\ action' = "quit"
    /\ before' = squares
    /\ moves' = moves + 1
    /\ UNCHANGED <<squares, outcome, shifted, made_move, finished, merges,
                   shift_input, shift_locals>>

Next == Left \/ Right \/ Top \/ Bottom \/ Quit

Spec == Init /\ [][Next]_vars

\* ---------------------------------------------------------------- a game in progress

\* Grids of games in progress, recorded from runs of the program (class Grid
\* driven from a new grid by sequences of left/right/top/bottom, its
\* random.choice answered by the driver): grids that are full with no equal
\* neighbours, full grids with a merge left, lines of four equal tiles, an
\* equal pair followed by its double, two 1024 tiles in one line, and
\* early positions.
RecordedGrids ==
    {
      <<<<128, 4, 8, 2>>, <<2, 16, 128, 4>>, <<4, 32, 16, 32>>, <<2, 8, 2, 4>>>>,
      <<<<2, 4, 2, 4>>, <<4, 32, 4, 32>>, <<32, 2, 128, 8>>, <<4, 8, 32, 2>>>>,
      <<<<2, 8, 2, 4>>, <<4, 64, 4, 2>>, <<32, 4, 32, 8>>, <<4, 8, 16, 2>>>>,
      <<<<4, 2, 4, 8>>, <<16, 4, 16, 32>>, <<8, 16, 64, 8>>, <<4, 2, 4, 2>>>>,
      <<<<16, 2, 16, 2>>, <<32, 128, 32, 4>>, <<2, 8, 16, 4>>, <<4, 2, 4, 2>>>>,
      <<<<2, 4, 8, 4>>, <<8, 64, 4, 16>>, <<4, 16, 32, 4>>, <<4, 8, 64, 2>>>>,
      <<<<16, 2, 2, 16>>, <<2, 32, 8, 2>>, <<8, 64, 2, 16>>, <<2, 16, 16, 2>>>>,
      <<<<2, 4, 8, 4>>, <<8, 64, 32, 8>>, <<2, 4, 128, 16>>, <<4, 16, 2, 2>>>>,
      <<<<16, 2, 16, 2>>, <<32, 128, 32, 2>>, <<2, 8, 16, 8>>, <<4, 2, 4, 4>>>>,
      <<<<2, 4, 4, 2>>, <<8, 32, 16, 2>>, <<16, 64, 128, 4>>, <<8, 2, 16, 32>>>>,
      <<<<16, 2, 4, 2>>, <<2, 8, 32, 2>>, <<0, 0, 16, 2>>, <<0, 0, 4, 2>>>>,
      <<<<4, 2, 8, 2>>, <<128, 32, 16, 2>>, <<2, 2, 16, 2>>, <<0, 0, 0, 2>>>>,
      <<<<16, 2, 0, 0>>, <<2, 8, 0, 0>>, <<8, 64, 16, 2>>, <<2, 2, 2, 2>>>>,
      <<<<2, 2, 2, 2>>, <<0, 0, 0, 32>>, <<0, 0, 0, 0>>, <<0, 0, 2, 0>>>>,
      <<<<128, 2, 8, 2>>, <<8, 2, 2, 0>>, <<16, 128, 32, 0>>, <<8, 4, 0, 0>>>>,
      <<<<32, 4, 0, 2>>, <<2, 4, 8, 2>>, <<16, 32, 16, 4>>, <<64, 8, 4, 0>>>>,
      <<<<16, 2, 4, 64>>, <<2, 8, 32, 4>>, <<2, 2, 16, 4>>, <<0, 4, 8, 0>>>>,
      <<<<4, 2, 8, 2>>, <<0, 8, 16, 8>>, <<2, 2, 32, 4>>, <<0, 0, 4, 2>>>>,
      <<<<16, 2, 16, 2>>, <<2, 4, 128, 2>>, <<2, 8, 16, 4>>, <<0, 0, 16, 4>>>>,
      <<<<4, 2, 4, 2>>, <<4, 32, 4, 8>>, <<8, 128, 16, 4>>, <<4, 16, 32, 2>>>>,
      <<<<16, 128, 2, 2>>, <<2, 32, 4, 4>>, <<0, 64, 8, 32>>, <<2, 2, 4, 2>>>>,
      <<<<4, 16, 2, 4>>, <<8, 32, 64, 2>>, <<2, 4, 32, 8>>, <<2, 2, 4, 2>>>>,
      <<<<2, 0, 0, 2>>, <<8, 1024, 8, 2>>, <<0, 1024, 16, 2>>, <<0, 4, 8, 2>>>>,
      <<<<8, 1024, 4, 2>>, <<0, 1024, 32, 2>>, <<0, 0, 0, 8>>, <<0, 0, 0, 2>>>>,
      <<<<2, 8, 1024, 2>>, <<2, 0, 1024, 8>>, <<0, 2, 8, 16>>, <<0, 0, 0, 2>>>>,
      <<<<2, 0, 8, 2>>, <<0, 0, 0, 1024>>, <<0, 0, 2, 1024>>, <<0, 4, 32, 8>>>>,
      <<<<0, 0, 8, 2>>, <<0, 0, 2, 1024>>, <<0, 0, 2, 1024>>, <<0, 4, 32, 8>>>>,
      <<<<2, 8, 2, 4>>, <<2, 1024, 1024, 2>>, <<0, 0, 32, 8>>, <<0, 0, 0, 0>>>>,
      <<<<8, 2, 4, 4>>, <<1024, 1024, 0, 0>>, <<8, 32, 0, 2>>, <<0, 0, 0, 0>>>>,
      <<<<2, 0, 0, 0>>, <<8, 2, 0, 0>>, <<1024, 1024, 4, 0>>, <<8, 32, 2, 2>>>>,
      <<<<0, 0, 0, 0>>, <<8, 2, 2, 0>>, <<1024, 1024, 4, 0>>, <<8, 32, 2, 2>>>>,
      <<<<0, 0, 2, 0>>, <<0, 0, 0, 0>>, <<0, 0, 0, 2>>, <<0, 0, 2, 4>>>>,
      <<<<0, 0, 0, 2>>, <<4, 2, 0, 0>>, <<2, 0, 0, 0>>, <<8, 2, 4, 0>>>>,
      <<<<8, 4, 0, 4>>, <<8, 4, 0, 0>>, <<2, 16, 2, 0>>, <<4, 2, 0, 0>>>>,
      <<<<0, 2, 0, 0>>, <<8, 2, 0, 0>>, <<16, 64, 4, 0>>, <<8, 16, 2, 2>>>>,
      <<<<0, 0, 2, 4>>, <<0, 0, 0, 2>>, <<0, 0, 0, 2>>, <<0, 0, 0, 0>>>>,
      <<<<0, 0, 0, 0>>, <<0, 2, 0, 0>>, <<4, 4, 0, 0>>, <<2, 2, 8, 2>>>>
    }

\* The main loop at one of the recorded grids, no action of the checked run
\* handled yet.
InitMid ==
    /\ squares \in RecordedGrids
    /\ pc = "loop"
    /\ action = "none"
    /\ outcome = "none"
    /\ before = squares
    /\ shifted = squares
    /\ made_move = FALSE
    /\ finished = FALSE
    /\ merges = 0
    /\ moves = 0
    /\ shift_input = <<>>
    /\ shift_locals = ShiftStart(shift_input)

SpecMid == InitMid /\ [][Next]_vars

\* ---------------------------------------------------------------- properties

\* The value of the square at a position.
At(g, p) == g[p[1]][p[2]]

\* The number of tiles of a grid.
TileCount(g) == Cardinality({p \in Positions : At(g, p) # None})

\* Every square holds a tile.
Full(g) == \A p \in Positions : At(g, p) # None

\* No two squares next to each other in a row or in a column hold equal values.
NoEqualNeighbours(g) ==
    \A x \in 1..GRID_WIDTH, y \in 1..GRID_HEIGHT :
        /\ y < GRID_HEIGHT => g[x][y] # g[x][y + 1]
        /\ x < GRID_WIDTH => g[x][y] # g[x + 1][y]

\* The last action was one of the four moves.
IsMove == action \in Directions

\* A line, in travel order, that a move leaves alone: no empty square before
\* a tile and no two equal tiles next to each other.
Blocked(vals) ==
    /\ \A i, j \in 1..Len(vals) : i < j /\ vals[i] = None => vals[j] = None
    /\ \A i \in 1..(Len(vals) - 1) : vals[i] # None => vals[i] # vals[i + 1]

\* No line of grid g changes under the move d.
NoLineChanges(g, d) ==
    \A k \in 1..Len(Lines(d)) : Blocked(Values(g, Lines(d)[k]))

\* Some merge of the last move produced a tile of the goal value.
GoalMerged == \E p \in Positions : At(shifted, p) = GOAL /\ At(before, p) # GOAL

RECURSIVE IsPowerOfTwo(_)
\* n is 2, 4, 8, ...
IsPowerOfTwo(n) == n = 2 \/ (n > 2 /\ n % 2 = 0 /\ IsPowerOfTwo(n \div 2))

\* The tiles of a line, in travel order.
Tiles(vals) == SelectSeq(vals, LAMBDA v : v # None)

\* No empty square of the line comes before a tile.
Packed(vals) == \A i, j \in 1..Len(vals) : i < j /\ vals[i] = None => vals[j] = None

\* ---------------------------------------------------------------- a single line

\* The values a tile of a running game can have: the powers of two below GOAL.
TileValues == {v \in 1..(GOAL - 1) : IsPowerOfTwo(v)}

\* The lines _move can hand to _shift: a square is empty or holds a tile.
LineInputs == [1..GRID_HEIGHT -> TileValues \cup {None}]

\* A single call of _shift, entered with any line.
InitLine ==
    /\ shift_input \in LineInputs
    /\ shift_locals = ShiftStart(shift_input)
    /\ pc = "shift"
    /\ squares = InitSquares
    /\ action = "none"
    /\ outcome = "none"
    /\ before = squares
    /\ shifted = squares
    /\ made_move = FALSE
    /\ finished = FALSE
    /\ merges = 0
    /\ moves = 0

\* The call of _shift runs its loop and returns.
ShiftLine ==
    /\ pc = "shift"
    /\ shift_locals' = Shift(shift_input)
    /\ pc' = "shifted"
    /\ UNCHANGED <<squares, action, outcome, before, shifted, made_move, finished, merges,
                   moves, shift_input>>

NextLine == ShiftLine

SpecLine == InitLine /\ [][NextLine]_vars

\* C1: once the grid is full and no two neighbours are equal, a move reports
\* the lost outcome (GameOverException) and the main loop ends.
C1_StuckMoveLoses ==
    (IsMove /\ Full(before) /\ NoEqualNeighbours(before))
        => (outcome = "lost" /\ pc = "done")

\* C2: the row [2,2,2,2] moved left becomes [4,4,empty,empty] before the spawn.
C2_FourEqualMergePairwise ==
    \A x \in 1..GRID_WIDTH :
        (action = "left" /\ before[x] = <<2, 2, 2, 2>>)
            => shifted[x] = <<4, 4, None, None>>

\* C3: a move under which no line changes leaves the grid as it was, spawns
\* no tile and ends continuing, with no exception.
C3_BlockedMoveIsNoOp ==
    (IsMove /\ NoLineChanges(before, action))
        => /\ shifted = before
           /\ squares = before
           /\ outcome = "continuing"
           /\ pc = "loop"

C3_Witness ==
    /\ IsMove
    /\ NoLineChanges(before, action)
    /\ ~Full(before)
    /\ pc = "loop"

\* C4: a move that changes a line and produces no 2048 spawns exactly one
\* tile: one square that is empty after the shift gets the value 2, every
\* other square keeps its shifted value, and the outcome is continuing; and
\* each square that is empty after the shift can be the one that gets it
\* (at every grid a checked run moves on from, it is among the results the
\* move may end with).
C4_ChangedMoveSpawnsOne ==
    /\ (IsMove /\ shifted # before /\ ~GoalMerged)
          => /\ outcome = "continuing"
             /\ \E p \in Positions :
                   /\ At(shifted, p) = None
                   /\ \A q \in Positions :
                         At(squares, q) = IF q = p THEN 2 ELSE At(shifted, q)
    /\ (pc = "loop" /\ moves < MaxMoves)
          => \A d \in Directions : \A m \in {ShiftLines(squares, d)} :
                (m.squares # squares /\ \A q \in Positions : At(m.squares, q) # GOAL)
                   => \A results \in {AfterShift(m)} : \A p \in Positions :
                         At(m.squares, p) = None
                            => [outcome |-> "continuing",
                                squares |-> SetValue(m.squares, p, 2)] \in results

C4_Witness ==
    /\ IsMove
    /\ shifted # before
    /\ ~GoalMerged
    /\ TileCount(shifted) < TileCount(before)
    /\ TileCount(squares) = TileCount(shifted) + 1

\* C5: a move reports won (GameFinishedException) exactly when one of its
\* merges produces a 2048 tile; then every line has still been shifted and no
\* tile is spawned.  The row [1024,1024,empty,empty] moved left becomes
\* [2048,empty,empty,empty] and the move reports won.
C5_WonIffGoalMerged ==
    IsMove =>
        /\ (outcome = "won") <=> GoalMerged
        /\ outcome = "won" =>
              /\ squares = shifted
              /\ \A k \in 1..Len(Lines(action)) :
                    Values(squares, Lines(action)[k])
                        = Shift(Values(before, Lines(action)[k])).line
        /\ \A x \in 1..GRID_WIDTH :
              (action = "left" /\ before[x] = <<1024, 1024, None, None>>)
                 => (squares[x] = <<2048, None, None, None>> /\ outcome = "won")

C5_Witness ==
    /\ action = "left"
    /\ outcome = "won"
    /\ \E x \in 1..GRID_WIDTH :
          /\ before[x] = <<1024, 1024, None, None>>
          /\ squares[x] = <<2048, None, None, None>>
    /\ squares # before

\* C6: a newly constructed grid holds exactly two tiles, both 2, at two
\* distinct positions, its other 14 squares are empty, and the construction
\* raised no GameOverException.
C6_NewGridHasTwoTwos ==
    moves = 0 =>
        /\ pc = "loop"
        /\ Cardinality({p \in Positions : At(squares, p) = 2}) = 2
        /\ Cardinality({p \in Positions : At(squares, p) = None}) = 14

C6_Witness ==
    /\ moves = 0
    /\ pc = "loop"
    /\ squares[1][1] = 2
    /\ squares[4][4] = 2

\* C7: every square that is not empty holds a power of two that is at least 2.
C7_TilesArePowersOfTwo ==
    \A p \in Positions : At(squares, p) = None \/ IsPowerOfTwo(At(squares, p))

C7_Witness ==
    /\ IsMove
    /\ merges > 0
    /\ \E p \in Positions : At(squares, p) > 2 * At(before, p) /\ At(squares, p) >= 64

\* C8: after the shift of a move that changed a line the grid has an empty
\* square, and no move raises GameOverException from the spawn.
C8_SpawnFindsASlot ==
    /\ outcome # "lost"
    /\ (IsMove /\ shifted # before) => \E p \in Positions : At(shifted, p) = None

C8_Witness ==
    /\ IsMove
    /\ Full(before)
    /\ shifted # before
    /\ outcome = "continuing"

\* C9: on a full grid with no two equal neighbours each of the four moves
\* changes nothing, spawns nothing and does not report the lost outcome.
C9_StuckMoveChangesNothing ==
    (IsMove /\ Full(before) /\ NoEqualNeighbours(before))
        => /\ shifted = before
           /\ squares = before
           /\ outcome # "lost"

C9_Witness ==
    /\ IsMove
    /\ Full(before)
    /\ NoEqualNeighbours(before)
    /\ moves = MaxMoves
    /\ pc = "loop"

\* C10: for a move that changes a line and does not end the game, the number
\* of tiles after the move is the number before it, minus the number of
\* merges of the move, plus one.
C10_TileCountAfterMove ==
    (IsMove /\ shifted # before /\ outcome = "continuing")
        => TileCount(squares) + merges = TileCount(before) + 1

C10_Witness ==
    /\ IsMove
    /\ shifted # before
    /\ outcome = "continuing"
    /\ merges >= 2

\* C11 as stated: across a move that changes a line and spawns a tile the
\* number of tiles does not decrease.
C11_TileCountNeverDecreases ==
    (IsMove /\ shifted # before /\ outcome = "continuing")
        => TileCount(squares) >= TileCount(before)

\* C11 as amended: across a move that changes a line and spawns a tile the
\* number of tiles decreases by at most 3 (each of the four lines merges at
\* most once and the spawn adds one), and it does not decrease when at most
\* one line merged.
C11_TileCountDecreasesAtMostThree ==
    (IsMove /\ shifted # before /\ outcome = "continuing")
        => /\ TileCount(squares) + 3 >= TileCount(before)
           /\ merges <= 1 => TileCount(squares) >= TileCount(before)

C11_Witness ==
    /\ IsMove
    /\ shifted # before
    /\ outcome = "continuing"
    /\ TileCount(squares) < TileCount(before)

\* C12: after the shift of a move no empty square precedes a tile in any line,
\* in travel order: every tile that did not merge has moved to the first
\* empty spot, also one that equals the last filled square after the line's
\* merge.
C12_ShiftedLinesArePacked ==
    IsMove =>
        \A k \in 1..Len(Lines(action)) : Packed(Values(shifted, Lines(action)[k]))

\* C13: a call of _shift merges at most once and a merged tile does not merge
\* again: the line holds as many tiles as before or one less, and every tile
\* it holds afterwards is a value the line held before or twice such a value.
C13_OneMergePerLine ==
    pc = "shifted" =>
        /\ \/ Len(Tiles(shift_locals.line)) = Len(Tiles(shift_input))
           \/ Len(Tiles(shift_locals.line)) + 1 = Len(Tiles(shift_input))
        /\ \A i \in 1..Len(shift_locals.line) :
              shift_locals.line[i] # None
                 => \E j \in 1..Len(shift_input) :
                       /\ shift_input[j] # None
                       /\ \/ shift_locals.line[i] = shift_input[j]
                          \/ shift_locals.line[i] = 2 * shift_input[j]
        /\ shift_locals.merged
              <=> Len(Tiles(shift_locals.line)) + 1 = Len(Tiles(shift_input))

C13_Witness ==
    /\ pc = "shifted"
    /\ shift_input = <<2, 2, 4, 4>>
    /\ shift_locals.line = <<4, None, 4, 4>>

\* The grid with every row reversed (left and right exchanged).
MirrorH(g) == [x \in 1..GRID_WIDTH |-> [y \in 1..GRID_HEIGHT |-> g[x][GRID_HEIGHT + 1 - y]]]

\* The grid with its rows in reverse order (top and bottom exchanged).
MirrorV(g) == [x \in 1..GRID_WIDTH |-> [y \in 1..GRID_HEIGHT |-> g[GRID_WIDTH + 1 - x][y]]]

\* The grid with rows and columns exchanged.
Transpose(g) == [x \in 1..GRID_HEIGHT |-> [y \in 1..GRID_WIDTH |-> g[y][x]]]

\* Move d shifts grid g as move e shifts grid h, up to the map back: the
\* same grid before the spawn, the same made_move and the same finished.
SameShift(g, d, h, e, Back(_)) ==
    \A m \in {ShiftLines(g, d)} : \A n \in {ShiftLines(h, e)} :
        /\ m.squares = Back(n.squares)
        /\ m.made_move = n.made_move
        /\ m.finished = n.finished

\* C14: at every grid of the main loop, right is left on the mirrored grid,
\* mirrored back; top is left on the transposed grid, transposed back; bottom
\* is top on the grid turned upside down, turned back; with the same
\* made_move and finished in each pair.
C14_DirectionsAreOneShift ==
    (pc = "loop" /\ moves < MaxMoves) =>
        /\ SameShift(squares, "right", MirrorH(squares), "left", MirrorH)
        /\ SameShift(squares, "top", Transpose(squares), "left", Transpose)
        /\ SameShift(squares, "bottom", MirrorV(squares), "top", MirrorV)

C14_Witness ==
    /\ action = "top"
    /\ shifted # before
    /\ shifted = Transpose(ShiftLines(Transpose(before), "left").squares)
    /\ MirrorH(before) # before
    /\ Transpose(before) # before
    /\ ShiftLines(before, "left").squares # shifted

RECURSIVE SumTo(_, _)
\* The sum of the first n values of a sequence (an empty square counts 0).
SumTo(vals, n) == IF n = 0 THEN 0 ELSE SumTo(vals, n - 1) + vals[n]

\* The sum of the tile values of row x, of column y, and of the grid.
RowSum(g, x) == SumTo(g[x], GRID_HEIGHT)

ColSum(g, y) == SumTo([x \in 1..GRID_WIDTH |-> g[x][y]], GRID_WIDTH)

GridSum(g) == SumTo([x \in 1..GRID_WIDTH |-> RowSum(g, x)], GRID_WIDTH)

\* C15: the shift of a left or right move keeps the sum of the tile values of
\* every row, that of a top or bottom move the sum of every column; so the sum
\* of all tile values grows by exactly 2 on a move that changes the grid
\* without winning, and stays on a move that changes nothing or wins.
C15_LinesKeepTheirSum ==
    IsMove =>
        /\ action \in {"left", "right"}
              => \A x \in 1..GRID_WIDTH : RowSum(shifted, x) = RowSum(before, x)
        /\ action \in {"top", "bottom"}
              => \A y \in 1..GRID_HEIGHT : ColSum(shifted, y) = ColSum(before, y)
        /\ GridSum(squares) =
              GridSum(before) + (IF shifted # before /\ outcome # "won" THEN 2 ELSE 0)

C15_Witness ==
    /\ action \in {"top", "bottom"}
    /\ merges >= 2
    /\ outcome = "continuing"
    /\ GridSum(squares) = GridSum(before) + 2
    /\ \E x \in 1..GRID_WIDTH : RowSum(shifted, x) # RowSum(before, x)

\* The tiles of a line after one merge of the equal neighbours i and i + 1.
MergedAt(tiles, i) ==
    [k \in 1..(Len(tiles) - 1) |->
        IF k < i THEN tiles[k]
        ELSE IF k = i THEN tiles[i] + tiles[i + 1]
        ELSE tiles[k + 1]]

\* The tiles stand in the order they had: nothing happened to them but, at
\* most, one merge of two equal neighbours.
OrderKept(vals, out) ==
    \/ Tiles(out) = Tiles(vals)
    \/ \E i \in 1..(Len(Tiles(vals)) - 1) :
          /\ Tiles(vals)[i] = Tiles(vals)[i + 1]
          /\ Tiles(out) = MergedAt(Tiles(vals), i)

\* C16: the collapse of a line keeps the relative order of its tiles: read
\* from the leading edge, the tiles after the collapse are the tiles before
\* it, two equal neighbours possibly merged in place; no tile jumps over
\* another.
C16_OrderOfTilesKept ==
    pc = "shifted" => OrderKept(shift_input, shift_locals.line)

\* C17: winning ends the game and bounds the tile values: a move that reported
\* won or lost leaves the main loop and no step follows it, every tile value
\* is at most 2048, a 2048 tile is on the grid only in the final state of a
\* won game, and every value on the grid has a colour in the renderer's table.
C17_WinIsTerminal ==
    /\ outcome \in {"won", "lost"} => pc = "done"
    /\ pc = "done" => ~ENABLED Next
    /\ \A p \in Positions :
          /\ At(squares, p) <= GOAL
          /\ At(squares, p) \in ColorKeys
          /\ At(squares, p) = GOAL => pc = "done" /\ outcome = "won"

C17_Witness ==
    /\ pc = "done"
    /\ outcome = "won"
    /\ moves = MaxMoves
    /\ \E p \in Positions : At(squares, p) = GOAL /\ At(before, p) = GOAL \div 2
    /\ \A q \in Positions : At(before, q) \in ColorKeys \ {GOAL}

\* The rows the collapse of the last move changed.
ChangedRows == {x \in 1..GRID_WIDTH : shifted[x] # before[x]}

\* The last move is the first move of a new game, and it is left.
FirstMoveLeft == moves = 1 /\ action = "left"

\* C18, as stated: on a new 4x4 game the first move left changes one row or
\* none, wherever the two seeded tiles are.
C18_FirstLeftChangesOneRowAtMost ==
    FirstMoveLeft => Cardinality(ChangedRows) <= 1

\* C18, amended: on a new 4x4 game the first move left changes at most two
\* rows: exactly the rows that hold a seeded tile, except a row whose only
\* tile stands at the left edge. Two rows change when the seeded tiles are in
\* different rows and both off the left edge.
C18_FirstLeftChangesSeededRows ==
    FirstMoveLeft =>
        /\ Cardinality(ChangedRows) <= 2
        /\ \A x \in 1..GRID_WIDTH :
              x \in ChangedRows <=>
                  /\ Tiles(before[x]) # <<>>
                  /\ before[x] # <<NEW_VALUE, None, None, None>>

C18_Witness ==
    /\ FirstMoveLeft
    /\ Cardinality(ChangedRows) = 2
    /\ made_move
    /\ merges = 0

====
